---- MODULE Spec2Model ----
(***************************************************************************)
(* A model of the pulsar tree-walking interpreter (src/src/interpreter.rs) *)
(* over the AST of src/src/ast.rs.                                         *)
(*                                                                         *)
(* Rust passes Environment by value: Environment::child, the closure of a  *)
(* KoxFunction and the callee of a Call are all clones.  The model keeps   *)
(* that: an Environment is a value [enclosing, venv], and every operator   *)
(* that takes `&mut Environment` returns the environment it leaves behind. *)
(*                                                                         *)
(* Host-dependent outcomes are inputs of the evaluation (the record        *)
(* `host`): the iteration order of std::collections::HashMap (seeded per   *)
(* process) and whether the build checks integer overflow (debug) or wraps *)
(* (release).                                                              *)
(***************************************************************************)
EXTENDS Integers, Sequences, FiniteSets, TLC

VARIABLES
    suite,        \* which family of programs this run draws its program from
    globalEnv,    \* the Environment handed to evaluate_program (main.rs:33)
    progResult,   \* evaluate_program's `result`, as a Result value
    status,       \* "running" | "returned" | "finished" | "failed" | "aborted"
    steps,        \* number of top-level expressions evaluated so far
    last,         \* Option: the top-level expression evaluated by the last step
    before,       \* globalEnv as it was before the last step
    lastres,      \* what evaluate() gave for `last` (before the program's match)
    lastout,      \* what the evaluation of `last` printed
    stdout,       \* everything println! wrote, in order
    process,      \* [order, overflow_checks]: the process' hash order and build
    source,       \* the tokens of the input handed to Parser::new
    ast,          \* Option: what the parser gave for `source`
    interpreter   \* the Interpreter: [global_environment]

vars ==
    <<suite, globalEnv, progResult, status, steps, last, before, lastres, lastout,
      stdout, process, source, ast, interpreter>>

-----------------------------------------------------------------------------
(* Option<T> is a sequence of length 0 or 1.                               *)
None == <<>>
Some(v) == <<v>>

-----------------------------------------------------------------------------
(* KoxValue::Int(i64).  TLC's integers are 32 bits wide, so an i64 is kept *)
(* as hi * 2^63 + lo with lo small: the values near 0, near i64::MAX       *)
(* (hi = 1, lo < 0) and near i64::MIN (hi = -1, lo >= 0).  The arithmetic  *)
(* below is exact on that form.                                            *)
IntV(hi, lo) == [t |-> "Int", hi |-> hi, lo |-> lo]
Int64(n) == IntV(0, n)
I64Max == IntV(1, -1)
I64Min == IntV(-1, 0)

\* hi * 2^63 + lo lies in -2^63 .. 2^63 - 1
InI64(hi, lo) ==
    \/ hi = 0
    \/ hi = 1 /\ lo < 0
    \/ hi = -1 /\ lo >= 0

\* two's complement wrap-around of hi * 2^63 + lo: modulo 2^64
WrapI64(hi, lo) ==
    IF hi % 2 = 0 THEN IntV(0, lo)
    ELSE IF lo < 0 THEN IntV(1, lo) ELSE IntV(-1, lo)

IntLess(l, r) == l.hi < r.hi \/ (l.hi = r.hi /\ l.lo < r.lo)

Abs(n) == IF n < 0 THEN -n ELSE n
Sign(n) == IF n < 0 THEN -1 ELSE 1

\* Rust's `/` on integers truncates toward zero; TLA+'s \div floors.
TruncDiv(a, b) == Sign(a) * Sign(b) * (Abs(a) \div Abs(b))

-----------------------------------------------------------------------------
(* KoxValue::Float(f64): a signed zero, a finite value s * n / d, an       *)
(* infinity or NaN.  Finite results are kept as exact fractions; rounding  *)
(* is not modelled.                                                        *)
RECURSIVE Gcd(_, _)
Gcd(a, b) == IF b = 0 THEN a ELSE Gcd(b, a % b)

Fin(s, n, d) ==
    LET g == IF n = 0 THEN d ELSE Gcd(n, d)
    IN  [k |-> "fin", s |-> s, n |-> n \div g, d |-> d \div g]
Inf(s) == [k |-> "inf", s |-> s]
NaN == [k |-> "nan"]
FloatV(f) == [t |-> "Float", f |-> f]
Float64(n) == FloatV(Fin(Sign(n), Abs(n), 1))

FNeg(a) == IF a.k = "nan" THEN a ELSE [a EXCEPT !.s = -a.s]

FAdd(a, b) ==
    CASE a.k = "nan" \/ b.k = "nan" -> NaN
      [] a.k = "inf" /\ b.k = "inf" -> IF a.s = b.s THEN a ELSE NaN
      [] a.k = "inf" -> a
      [] b.k = "inf" -> b
      [] OTHER ->
            LET x == a.s * a.n * b.d + b.s * b.n * a.d
            IN  IF x = 0
                THEN Fin(IF a.s = -1 /\ b.s = -1 THEN -1 ELSE 1, 0, 1)
                ELSE Fin(Sign(x), Abs(x), a.d * b.d)

FMul(a, b) ==
    CASE a.k = "nan" \/ b.k = "nan" -> NaN
      [] a.k = "inf" /\ b.k = "fin" /\ b.n = 0 -> NaN
      [] b.k = "inf" /\ a.k = "fin" /\ a.n = 0 -> NaN
      [] a.k = "inf" \/ b.k = "inf" -> Inf(a.s * b.s)
      [] OTHER -> Fin(a.s * b.s, a.n * b.n, a.d * b.d)

\* IEEE-754 division: a zero divisor gives an infinity or NaN, never a trap
FDiv(a, b) ==
    CASE a.k = "nan" \/ b.k = "nan" -> NaN
      [] a.k = "inf" /\ b.k = "inf" -> NaN
      [] a.k = "inf" -> Inf(a.s * b.s)
      [] b.k = "inf" -> Fin(a.s * b.s, 0, 1)
      [] b.n = 0 -> IF a.n = 0 THEN NaN ELSE Inf(a.s * b.s)
      [] OTHER -> Fin(a.s * b.s, a.n * b.d, a.d * b.n)

-----------------------------------------------------------------------------
(* The other variants of KoxValue.                                         *)
StringV(s) == [t |-> "String", s |-> s]
BooleanV(b) == [t |-> "Boolean", b |-> b]
NilV == [t |-> "Nil"]
ReturnV(v) == [t |-> "Return", value |-> v]
NativeFunctionV(arity, callable) ==
    [t |-> "NativeFunction", arity |-> arity, callable |-> callable]
KoxFunctionV(arity, body, closure) ==
    [t |-> "KoxFunction", arity |-> arity, body |-> body, closure |-> closure]

\* std::mem::discriminant of a KoxValue
Discriminant(v) == v.t

(* Result<KoxValue, RuntimeError>, and the outcome that is neither: a      *)
(* panic, which aborts the process.                                        *)
Ok(v) == [k |-> "Ok", v |-> v]
Err(message, line, column) ==
    [k |-> "Err", message |-> message, line |-> line, column |-> column]
Panic(message) == [k |-> "Panic", message |-> message]

-----------------------------------------------------------------------------
(* ast.rs: Expression.  Every node carries line and column; the            *)
(* constructors below place a node at line 1, column 0, and At moves it.   *)
At(expression, line, column) ==
    [expression EXCEPT !.line = line, !.column = column]
Binary(left, operator, right) ==
    [node |-> "Binary", left |-> left, operator |-> operator, right |-> right,
     line |-> 1, column |-> 0]
Call(function, arguments) ==
    [node |-> "Call", function |-> function, arguments |-> arguments,
     line |-> 1, column |-> 0]
Identifier(ident) ==
    [node |-> "Identifier", ident |-> ident, line |-> 1, column |-> 0]
Assign(name, value) ==
    [node |-> "Assign", name |-> name, value |-> value, line |-> 1, column |-> 0]
Value(value) ==
    [node |-> "Value", value |-> value, line |-> 1, column |-> 0]
Let(name, value) ==
    [node |-> "Let", name |-> name, value |-> value, line |-> 1, column |-> 0]
Return(value) ==
    [node |-> "Return", value |-> value, line |-> 1, column |-> 0]
Block(expressions) ==
    [node |-> "Block", expressions |-> expressions, line |-> 1, column |-> 0]
If(condition, consequence, alternative) ==
    [node |-> "If", condition |-> condition, consequence |-> consequence,
     alternative |-> alternative, line |-> 1, column |-> 0]
Function(name, parameters, body) ==
    [node |-> "Function", name |-> name, parameters |-> parameters,
     body |-> body, line |-> 1, column |-> 0]
For(ident, expr, body) ==
    [node |-> "For", ident |-> ident, expr |-> expr, body |-> body,
     line |-> 1, column |-> 0]

-----------------------------------------------------------------------------
(* Environment: [enclosing : Option<Box<Environment>>, venv : HashMap].    *)
(* venv is a function from the names it holds to their values.             *)
EnvironmentNew == [enclosing |-> None, venv |-> <<>>]

\* the child owns a clone of its parent
Child(env) == [enclosing |-> Some(env), venv |-> <<>>]

RECURSIVE Get(_, _)
Get(env, name) ==
    IF name \in DOMAIN env.venv THEN Some(env.venv[name])
    ELSE IF env.enclosing # None THEN Get(env.enclosing[1], name)
    ELSE None

Insert(env, name, value) ==
    [env EXCEPT !.venv = (name :> value) @@ env.venv]

\* Environment::assign: [res, env], env being the environment it leaves
RECURSIVE EnvAssign(_, _, _)
EnvAssign(env, identifier, value) ==
    IF identifier.node # "Identifier"
    THEN [res |-> Panic("attempting to assign to non-identifier expression"),
          env |-> env]
    ELSE IF identifier.ident \in DOMAIN env.venv
    THEN [res |-> Ok(value), env |-> Insert(env, identifier.ident, value)]
    ELSE IF env.enclosing # None
    THEN LET r == EnvAssign(env.enclosing[1], identifier, value)
         IN  [res |-> r.res, env |-> [env EXCEPT !.enclosing = Some(r.env)]]
    ELSE [res |-> Err(<<"Undefined variable", identifier.ident>>,
                      identifier.line, identifier.column),
          env |-> env]

\* HashMap::keys(): the names of venv in the process' hash order
Keys(venv, order) == SelectSeq(order, LAMBDA n : n \in DOMAIN venv)

-----------------------------------------------------------------------------
(* impl Display for KoxValue.  An Int near i64::MAX or i64::MIN and a      *)
(* Float that is no whole number are written symbolically.                 *)
RECURSIVE Display(_)
Display(v) ==
    CASE v.t = "Int" ->
            IF v.hi = 0 THEN ToString(v.lo)
            ELSE ToString(v.hi) \o "*2^63+" \o ToString(v.lo)
      [] v.t = "Float" ->
            CASE v.f.k = "nan" -> "NaN"
              [] v.f.k = "inf" -> IF v.f.s = 1 THEN "inf" ELSE "-inf"
              [] OTHER ->
                    (IF v.f.s = 1 THEN "" ELSE "-") \o ToString(v.f.n)
                    \o (IF v.f.d = 1 THEN "" ELSE "/" \o ToString(v.f.d))
      [] v.t = "String" -> v.s
      [] v.t = "Boolean" -> IF v.b THEN "true" ELSE "false"
      [] v.t = "Nil" -> "nil"
      [] v.t = "NativeFunction" -> "<native function>"
      [] v.t = "KoxFunction" -> "<function>"
      [] v.t = "Return" -> Display(v.value)

-----------------------------------------------------------------------------
(* Interpreter::evaluate_binary, after both operands were evaluated.       *)

\* an i64 result hi * 2^63 + lo: kept when it fits, else the build decides
Arith(fits, hi, lo, host) ==
    IF fits THEN Ok(IntV(hi, lo))
    ELSE IF host.overflow_checks THEN Panic("attempt to compute with overflow")
    ELSE Ok(WrapI64(hi, lo))

\* i64 `/`: traps on a zero divisor and on i64::MIN / -1 in every build
IntDiv(l, r) ==
    CASE r.hi = 0 /\ r.lo = 0 -> Panic("attempt to divide by zero")
      [] l = I64Min /\ r = Int64(-1) -> Panic("attempt to divide with overflow")
      [] l.hi = 0 /\ r.hi = 0 -> Ok(Int64(TruncDiv(l.lo, r.lo)))
      [] l.hi = 0 /\ r.hi # 0 -> Ok(Int64(0))
      [] l.hi # 0 /\ r = Int64(1) -> Ok(l)
      [] l.hi # 0 /\ r = Int64(-1) -> Ok(IntV(-l.hi, -l.lo))
      [] l.hi # 0 /\ r.hi # 0 ->
            Ok(Int64(IF l.hi * l.lo >= r.hi * r.lo THEN l.hi * r.hi ELSE 0))

IntOp(l, operator, r, line, column, host) ==
    CASE operator = "Plus" ->
            Arith(InI64(l.hi + r.hi, l.lo + r.lo), l.hi + r.hi, l.lo + r.lo, host)
      [] operator = "Minus" ->
            Arith(InI64(l.hi - r.hi, l.lo - r.lo), l.hi - r.hi, l.lo - r.lo, host)
      [] operator = "Asterisk" ->
            LET hi == l.hi * r.lo + r.hi * l.lo
                lo == l.lo * r.lo
            IN  Arith(l.hi * r.hi = 0 /\ InI64(hi, lo), hi, lo, host)
      [] operator = "Slash" -> IntDiv(l, r)
      [] operator = "GreaterThan" -> Ok(BooleanV(IntLess(r, l)))
      [] operator = "LessThan" -> Ok(BooleanV(IntLess(l, r)))
      [] operator = "GreaterThanEqual" -> Ok(BooleanV(~IntLess(l, r)))
      [] operator = "LessThanEqual" -> Ok(BooleanV(~IntLess(r, l)))
      [] OTHER -> Err(<<"Invalid operator for integers", operator>>, line, column)

FloatOp(l, operator, r, line, column) ==
    CASE operator = "Plus" -> Ok(FloatV(FAdd(l.f, r.f)))
      [] operator = "Minus" -> Ok(FloatV(FAdd(l.f, FNeg(r.f))))
      [] operator = "Asterisk" -> Ok(FloatV(FMul(l.f, r.f)))
      [] operator = "Slash" -> Ok(FloatV(FDiv(l.f, r.f)))
      [] OTHER -> Err(<<"Invalid operator for floats", operator>>, line, column)

\* BinaryOp with a bug: the variants of the operands are not compared
BinaryOpUnchecked(left, operator, right, line, column, host) ==
    CASE left.t = "Int" /\ right.t = "Int" ->
            IntOp(left, operator, right, line, column, host)
      [] left.t = "Float" /\ right.t = "Float" ->
            FloatOp(left, operator, right, line, column)
      [] OTHER -> Err(<<"Invalid operands for operator", operator>>, line, column)

BinaryOp(left, operator, right, line, column, host) ==
    IF Discriminant(left) # Discriminant(right)
    THEN Err(<<"Operands must be of the same type">>, line, column)
    ELSE CASE left.t = "Int" -> IntOp(left, operator, right, line, column, host)
           [] left.t = "Float" -> FloatOp(left, operator, right, line, column)
           [] OTHER ->
                Err(<<"Invalid operands for operator", operator>>, line, column)

-----------------------------------------------------------------------------
(* Interpreter::evaluate.  Every operator below gives                      *)
(* [res, env, out]: the Result (or panic), the environment the evaluation  *)
(* leaves in the caller's `&mut Environment`, and what it printed.         *)
RECURSIVE Evaluate(_, _, _)
RECURSIVE EvaluateProgramFrom(_, _, _, _, _)
RECURSIVE EvaluateArguments(_, _, _, _)

\* Expression::Value: the literal's variant, variant by variant
LiteralValue(value) ==
    CASE value.t = "Int" -> IntV(value.hi, value.lo)
      [] value.t = "Float" -> FloatV(value.f)
      [] value.t = "String" -> StringV(value.s)
      [] value.t = "Boolean" -> BooleanV(value.b)
      [] value.t = "Nil" -> NilV

\* (function.callable)(args) of the one native function, print
NativeFunctionCall(function, args) ==
    [res |-> Ok(NilV), out |-> <<Display(args[1])>>]

\* the names KoxFunction::call binds: closure.venv.keys().zip(args)
RECURSIVE BindParameters(_, _, _)
BindParameters(env, keys, args) ==
    IF keys = <<>> \/ args = <<>> THEN env
    ELSE BindParameters(Insert(env, Head(keys), Head(args)), Tail(keys), Tail(args))

\* the scope KoxFunction::call evaluates the body in
CallScope(function, args, host) ==
    BindParameters(Child(function.closure),
                   Keys(function.closure.venv, host.order), args)

\* KoxFunction::call: the scope is a local, dropped on return
KoxFunctionCall(function, args, host) ==
    LET r == Evaluate(function.body, CallScope(function, args, host), host)
    IN  [res |-> r.res, out |-> r.out]

\* EvaluateProgramFrom with a bug: a Return does not end the loop
RECURSIVE EvaluateProgramFromNoStop(_, _, _, _, _)
EvaluateProgramFromNoStop(program, i, result, env, host) ==
    IF i > Len(program) THEN [res |-> Ok(result), env |-> env, out |-> <<>>]
    ELSE LET r == Evaluate(program[i], env, host)
         IN  IF r.res.k # "Ok" THEN r
             ELSE LET v == IF r.res.v.t = "Return" THEN r.res.v.value ELSE r.res.v
                      n == EvaluateProgramFromNoStop(program, i + 1, v, r.env, host)
                  IN  [n EXCEPT !.out = r.out \o n.out]

\* evaluate_program: the loop over program[i..], `result` being the last value
EvaluateProgramFrom(program, i, result, env, host) ==
    IF i > Len(program) THEN [res |-> Ok(result), env |-> env, out |-> <<>>]
    ELSE LET r == Evaluate(program[i], env, host)
         IN  IF r.res.k # "Ok" THEN r
             ELSE IF r.res.v.t = "Return"
             THEN [res |-> Ok(r.res.v.value), env |-> r.env, out |-> r.out]
             ELSE LET n == EvaluateProgramFrom(program, i + 1, r.res.v, r.env, host)
                  IN  [n EXCEPT !.out = r.out \o n.out]

EvaluateProgram(program, env, host) ==
    EvaluateProgramFrom(program, 1, NilV, env, host)

\* the loop `for arg in arguments { args.push(self.evaluate(arg, environment)?) }`
\* from the i-th argument on; on success res is Ok and args the values
EvaluateArguments(arguments, i, env, host) ==
    IF i > Len(arguments)
    THEN [res |-> Ok(NilV), args |-> <<>>, env |-> env, out |-> <<>>]
    ELSE LET r == Evaluate(arguments[i], env, host)
         IN  IF r.res.k # "Ok"
             THEN [res |-> r.res, args |-> <<>>, env |-> r.env, out |-> r.out]
             ELSE LET n == EvaluateArguments(arguments, i + 1, r.env, host)
                  IN  [res |-> n.res, args |-> <<r.res.v>> \o n.args,
                       env |-> n.env, out |-> r.out \o n.out]

\* `as u8`: the count modulo 2^8
U8Modulus == 256
AsU8(n) == n % U8Modulus

\* CallFunction with a bug: the functions made from one definition share one
\* captured frame, so what the body assigned shows in every one of them
CallFunctionSharedFrame(callee, a, line, column, host) ==
    IF AsU8(Len(a.args)) # callee.arity
    THEN [res |-> Err(<<"Expected arguments but got", ToString(callee.arity),
                        ToString(Len(a.args))>>, line, column),
          env |-> a.env, out |-> a.out]
    ELSE IF callee.t = "NativeFunction"
    THEN LET r == NativeFunctionCall(callee, a.args)
         IN  [res |-> r.res, env |-> a.env, out |-> a.out \o r.out]
    ELSE LET r == Evaluate(callee.body, CallScope(callee, a.args, host), host)
             frame == r.env.enclosing[1]
             Shares(v) == v.t = "KoxFunction" /\ v.body = callee.body
             shared == [n \in DOMAIN a.env.venv |->
                           IF Shares(a.env.venv[n])
                           THEN [a.env.venv[n] EXCEPT !.closure = frame]
                           ELSE a.env.venv[n]]
         IN  [res |-> r.res, env |-> [a.env EXCEPT !.venv = shared],
              out |-> a.out \o r.out]

\* CallFunction with a bug: the body runs in a child of the caller's
\* environment (dynamic scoping) instead of a child of the captured one
CallFunctionDynamicScope(callee, a, line, column, host) ==
    IF AsU8(Len(a.args)) # callee.arity
    THEN [res |-> Err(<<"Expected arguments but got", ToString(callee.arity),
                        ToString(Len(a.args))>>, line, column),
          env |-> a.env, out |-> a.out]
    ELSE IF callee.t = "NativeFunction"
    THEN LET r == NativeFunctionCall(callee, a.args)
         IN  [res |-> r.res, env |-> a.env, out |-> a.out \o r.out]
    ELSE LET scope == BindParameters(Child(a.env),
                                     Keys(callee.closure.venv, host.order), a.args)
             r == Evaluate(callee.body, scope, host)
         IN  [res |-> r.res, env |-> a.env, out |-> a.out \o r.out]

\* Expression::Call once the callee and the arguments were evaluated: the
\* arity check, then function.call(self, &args); a is EvaluateArguments' record
CallFunction(callee, a, line, column, host) ==
    IF AsU8(Len(a.args)) # callee.arity
    THEN [res |-> Err(<<"Expected arguments but got", ToString(callee.arity),
                        ToString(Len(a.args))>>, line, column),
          env |-> a.env, out |-> a.out]
    ELSE LET r == IF callee.t = "NativeFunction"
                  THEN NativeFunctionCall(callee, a.args)
                  ELSE KoxFunctionCall(callee, a.args, host)
         IN  [res |-> r.res, env |-> a.env, out |-> a.out \o r.out]

\* EvaluateCall with a bug: the argument count is checked against the arity
\* before the arguments are evaluated, so a call with a wrong count
\* evaluates none of them
EvaluateCallArityFirst(expression, environment, host) ==
    LET c == Evaluate(expression.function, environment, host)
    IN  IF c.res.k # "Ok" THEN c
        ELSE IF c.res.v.t \notin {"NativeFunction", "KoxFunction"}
        THEN [res |-> Err(<<"Can only call functions! Not", Display(c.res.v)>>,
                          expression.line, expression.column),
              env |-> c.env, out |-> c.out]
        ELSE IF AsU8(Len(expression.arguments)) # c.res.v.arity
        THEN [res |-> Err(<<"Expected arguments but got", ToString(c.res.v.arity),
                            ToString(Len(expression.arguments))>>,
                          expression.line, expression.column),
              env |-> c.env, out |-> c.out]
        ELSE LET a == EvaluateArguments(expression.arguments, 1, c.env, host)
             IN  IF a.res.k # "Ok"
                 THEN [res |-> a.res, env |-> a.env, out |-> c.out \o a.out]
                 ELSE LET r == CallFunction(c.res.v, a, expression.line,
                                            expression.column, host)
                      IN  [r EXCEPT !.out = c.out \o r.out]

\* Expression::Call: the callee, the check that it is callable, the
\* arguments, then the arity check and the call
EvaluateCall(expression, environment, host) ==
    LET c == Evaluate(expression.function, environment, host)
    IN  IF c.res.k # "Ok" THEN c
        ELSE IF c.res.v.t \notin {"NativeFunction", "KoxFunction"}
        THEN [res |-> Err(<<"Can only call functions! Not", Display(c.res.v)>>,
                          expression.line, expression.column),
              env |-> c.env, out |-> c.out]
        ELSE LET a == EvaluateArguments(expression.arguments, 1, c.env, host)
             IN  IF a.res.k # "Ok"
                 THEN [res |-> a.res, env |-> a.env, out |-> c.out \o a.out]
                 ELSE LET r == CallFunction(c.res.v, a, expression.line,
                                            expression.column, host)
                      IN  [r EXCEPT !.out = c.out \o r.out]

EvaluateBinary(expression, environment, host) ==
    LET l == Evaluate(expression.left, environment, host)
    IN  IF l.res.k # "Ok" THEN l
        ELSE LET r == Evaluate(expression.right, l.env, host)
             IN  IF r.res.k # "Ok" THEN [r EXCEPT !.out = l.out \o r.out]
                 ELSE [res |-> BinaryOp(l.res.v, expression.operator, r.res.v,
                                        expression.line, expression.column, host),
                       env |-> r.env, out |-> l.out \o r.out]

EvaluateAssign(expression, environment, host) ==
    LET v == Evaluate(expression.value, environment, host)
    IN  IF v.res.k # "Ok" THEN v
        ELSE LET r == EnvAssign(v.env,
                                At(Identifier(expression.name), expression.line,
                                   expression.column),
                                v.res.v)
             IN  [res |-> r.res, env |-> r.env, out |-> v.out]

EvaluateLet(expression, environment, host) ==
    LET v == Evaluate(expression.value, environment, host)
    IN  IF v.res.k # "Ok" THEN v
        ELSE [v EXCEPT !.env = Insert(v.env, expression.name, v.res.v)]

EvaluateReturn(expression, environment, host) ==
    LET v == Evaluate(expression.value, environment, host)
    IN  IF v.res.k # "Ok" THEN v
        ELSE [v EXCEPT !.res = Ok(ReturnV(v.res.v))]

\* EvaluateBlock with a bug: the block runs in the environment itself, so
\* what it binds stays bound after it
EvaluateBlockInPlace(expression, environment, host) ==
    EvaluateProgram(expression.expressions, environment, host)

\* the block runs in `&mut environment.child()`, a temporary
EvaluateBlock(expression, environment, host) ==
    LET r == EvaluateProgram(expression.expressions, Child(environment), host)
    IN  [res |-> r.res, env |-> environment, out |-> r.out]

EvaluateIf(expression, environment, host) ==
    LET c == Evaluate(expression.condition, environment, host)
    IN  IF c.res.k # "Ok" THEN c
        ELSE IF c.res.v = BooleanV(TRUE)
        THEN LET r == Evaluate(expression.consequence, c.env, host)
             IN  [r EXCEPT !.out = c.out \o r.out]
        ELSE IF c.res.v = BooleanV(FALSE)
        THEN IF expression.alternative # None
             THEN LET r == Evaluate(expression.alternative[1], c.env, host)
                  IN  [r EXCEPT !.out = c.out \o r.out]
             ELSE [c EXCEPT !.res = Ok(NilV)]
        ELSE [c EXCEPT !.res = Err(<<"Condition must be a boolean">>,
                                   expression.line, expression.column)]

\* the KoxFunction keeps the parameter count and a clone of the environment
\* as it is before the function's own name is inserted
EvaluateFunction(expression, environment) ==
    LET function == KoxFunctionV(AsU8(Len(expression.parameters)),
                                 expression.body, environment)
    IN  [res |-> Ok(NilV),
         env |-> Insert(environment, expression.name, function),
         out |-> <<>>]

EvaluateIdentifier(expression, environment) ==
    LET got == Get(environment, expression.ident)
    IN  [res |-> IF got # None THEN Ok(got[1])
                 ELSE Err(<<"Undefined variable", expression.ident>>,
                          expression.line, expression.column),
         env |-> environment, out |-> <<>>]

Evaluate(expression, environment, host) ==
    CASE expression.node = "Binary" -> EvaluateBinary(expression, environment, host)
      [] expression.node = "Call" -> EvaluateCall(expression, environment, host)
      [] expression.node = "Identifier" -> EvaluateIdentifier(expression, environment)
      [] expression.node = "Assign" -> EvaluateAssign(expression, environment, host)
      [] expression.node = "Value" ->
            [res |-> Ok(LiteralValue(expression.value)), env |-> environment,
             out |-> <<>>]
      [] expression.node = "Let" -> EvaluateLet(expression, environment, host)
      [] expression.node = "Return" -> EvaluateReturn(expression, environment, host)
      [] expression.node = "Block" -> EvaluateBlock(expression, environment, host)
      [] expression.node = "If" -> EvaluateIf(expression, environment, host)
      [] expression.node = "Function" -> EvaluateFunction(expression, environment)
      [] expression.node = "For" ->
            [res |-> Panic("not yet implemented"), env |-> environment, out |-> <<>>]

-----------------------------------------------------------------------------
(* token.rs: Token.  The parser is modelled over the stream of tokens that *)
(* Lexer::next_token hands it: the input is one line, a sequence of        *)
(* tokens, followed by Eof for ever.  Positions count tokens, not          *)
(* characters: after Parser::next_token the parser's `column` is the       *)
(* number of tokens before the lookahead, the lexer's the number it has    *)
(* read; `line` is 1.                                                      *)
Tok(name) == [tok |-> name]
TIdent(ident) == [tok |-> "Ident", ident |-> ident]
TInt(n) == [tok |-> "Int", value |-> Int64(n)]
TString(str) == [tok |-> "String", value |-> StringV(str)]

\* self.lookahead when the parser stands at the p-th token
Lookahead(ts, p) == IF p > Len(ts) THEN Tok("Eof") ELSE ts[p]
\* self.column and self.lexer.column at that point
ParserColumn(p) == p - 1
LexerColumn(p) == p

ParseError(message, line, column) ==
    [k |-> "ParseError", message |-> message, line |-> line, column |-> column]

\* eat!: the error of a token that is not the expected one
Expected(token, p) ==
    [res |-> ParseError(<<"expected", token>>, 1, ParserColumn(p)), pos |-> p]
ExpectedIdentifier(p) ==
    [res |-> ParseError(<<"expected identifier">>, 1, ParserColumn(p)), pos |-> p]

\* push_program!: the expressions after which the loop `continue`s, past
\* the code that handles the `;`
IsBlock(expression) == expression.node = "Block"
SelfDelimiting(expression) ==
    CASE expression.node = "For" -> IsBlock(expression.body)
      [] expression.node = "Function" -> IsBlock(expression.body)
      [] expression.node = "If" ->
            IF expression.alternative # None
            THEN IsBlock(expression.alternative[1])
            ELSE IsBlock(expression.consequence)
      [] OTHER -> FALSE

\* LevelOperators with a bug: term takes `*` and `/`, factor `+` and `-`
LevelOperatorsSwapped(level) ==
    CASE level = 1 -> {"EqEq", "BangEq"}
      [] level = 2 -> {"LessThan", "LessThanEqual", "GreaterThan", "GreaterThanEqual"}
      [] level = 3 -> {"Asterisk", "Slash"}
      [] level = 4 -> {"Plus", "Minus"}
      [] level = 5 -> {"Pow"}

\* the operator tokens of the five binary levels: equality, comparison,
\* term, factor, exponential
LevelOperators(level) ==
    CASE level = 1 -> {"EqEq", "BangEq"}
      [] level = 2 -> {"LessThan", "LessThanEqual", "GreaterThan", "GreaterThanEqual"}
      [] level = 3 -> {"Plus", "Minus"}
      [] level = 4 -> {"Asterisk", "Slash"}
      [] level = 5 -> {"Pow"}

\* BlockStatements with a bug: no Nil is appended
BlockStatementsAsWritten(statements, semicolon, p) == statements

\* Parser::block, after the loop: a trailing `;` (or no statement at all)
\* appends a Nil
BlockStatements(statements, semicolon, p) ==
    IF semicolon THEN Append(statements, At(Value(NilV), 1, ParserColumn(p)))
    ELSE statements

(* Every parsing operator gives [res, pos]: Ok(expression) or a            *)
(* ParseError, and the position the parser stands at afterwards.           *)
RECURSIVE ParserExpression(_, _)
RECURSIVE ParserBlockLoop(_, _, _, _)
RECURSIVE ParserProgramLoop(_, _, _)
RECURSIVE ParserLevel(_, _, _)
RECURSIVE ParserLevelLoop(_, _, _, _)
RECURSIVE ParserAssignment(_, _)
RECURSIVE ParserParameters(_, _, _)
RECURSIVE ParserArguments(_, _, _)

\* the `?` operator: an error is returned at once, else the function goes on
Try(r, Go(_)) == IF r.res.k # "Ok" THEN r ELSE Go(r)

\* Parser::parse_program: the loop, standing at p with `program` parsed
ParserProgramLoop(ts, p, program) ==
    IF Lookahead(ts, p) = Tok("Eof") THEN [res |-> Ok(program), pos |-> p]
    ELSE Try(ParserExpression(ts, p), LAMBDA e :
            IF SelfDelimiting(e.res.v)
            THEN ParserProgramLoop(ts, e.pos, Append(program, e.res.v))
            ELSE IF Lookahead(ts, e.pos) # Tok("Semicolon")
            THEN Expected("Semicolon", e.pos)
            ELSE ParserProgramLoop(ts, e.pos + 1, Append(program, e.res.v)))

ParserParseProgram(ts) == ParserProgramLoop(ts, 1, <<>>)

ParserReturnExpression(ts, p) ==
    IF Lookahead(ts, p) # Tok("Return") THEN Expected("Return", p)
    ELSE Try(ParserExpression(ts, p + 1), LAMBDA value :
            [res |-> Ok(At(Return(value.res.v), 1, ParserColumn(value.pos))),
             pos |-> value.pos])

\* Ok(Expression::If { .. }) at the end of if_expression: `consequence?` is
\* where the consequence's error is returned, after the alternative was parsed
IfNode(condition, consequence, alternative, p) ==
    IF consequence.res.k # "Ok" THEN [res |-> consequence.res, pos |-> p]
    ELSE [res |-> Ok(At(If(condition, consequence.res.v, alternative),
                        1, ParserColumn(p))),
          pos |-> p]

\* if_expression from `let alternative = ..` on
IfAlternative(ts, condition, consequence) ==
    IF Lookahead(ts, consequence.pos) # Tok("Else")
    THEN IfNode(condition, consequence, None, consequence.pos)
    ELSE Try(ParserExpression(ts, consequence.pos + 1), LAMBDA alternative :
            IfNode(condition, consequence, Some(alternative.res.v),
                   alternative.pos))

ParserIfExpression(ts, p) ==
    IF Lookahead(ts, p) # Tok("If") THEN Expected("If", p)
    ELSE Try(ParserExpression(ts, p + 1), LAMBDA condition :
            IfAlternative(ts, condition.res.v,
                          ParserExpression(ts, condition.pos)))

\* the loop `while self.nibble(Token::Comma) { parameters.push(..) }`
ParserParameters(ts, p, parameters) ==
    IF Lookahead(ts, p) # Tok("Comma") THEN [res |-> Ok(parameters), pos |-> p]
    ELSE IF Lookahead(ts, p + 1).tok # "Ident" THEN ExpectedIdentifier(p + 1)
    ELSE ParserParameters(ts, p + 2, Append(parameters, Lookahead(ts, p + 1).ident))

\* the parameters between `(` and `)`
ParameterList(ts, p) ==
    IF Lookahead(ts, p) = Tok("RParen") THEN [res |-> Ok(<<>>), pos |-> p]
    ELSE IF Lookahead(ts, p).tok # "Ident" THEN ExpectedIdentifier(p)
    ELSE ParserParameters(ts, p + 1, <<Lookahead(ts, p).ident>>)

ParserFunctionExpression(ts, p) ==
    IF Lookahead(ts, p) # Tok("Function") THEN Expected("Function", p)
    ELSE IF Lookahead(ts, p + 1).tok # "Ident" THEN ExpectedIdentifier(p + 1)
    ELSE IF Lookahead(ts, p + 2) # Tok("LParen") THEN Expected("LParen", p + 2)
    ELSE Try(ParameterList(ts, p + 3), LAMBDA parameters :
            IF Lookahead(ts, parameters.pos) # Tok("RParen")
            THEN Expected("RParen", parameters.pos)
            ELSE Try(ParserExpression(ts, parameters.pos + 1), LAMBDA body :
                    [res |-> Ok(At(Function(Lookahead(ts, p + 1).ident,
                                            parameters.res.v, body.res.v),
                                   1, ParserColumn(body.pos))),
                     pos |-> body.pos]))

ParserLetExpression(ts, p) ==
    IF Lookahead(ts, p) # Tok("Let") THEN Expected("Let", p)
    ELSE IF Lookahead(ts, p + 1).tok # "Ident" THEN ExpectedIdentifier(p + 1)
    ELSE IF Lookahead(ts, p + 2) # Tok("Eq") THEN Expected("Eq", p + 2)
    ELSE Try(ParserExpression(ts, p + 3), LAMBDA value :
            [res |-> Ok(At(Let(Lookahead(ts, p + 1).ident, value.res.v),
                           1, ParserColumn(value.pos))),
             pos |-> value.pos])

\* Parser::block: the loop, standing at p with `statements` parsed; after an
\* expression that push_program! `continue`s on, `semicolon` stays false
ParserBlockLoop(ts, p, statements, semicolon) ==
    IF Lookahead(ts, p) = Tok("RBrace")
    THEN [res |-> Ok(At(Block(BlockStatements(statements, semicolon, p)),
                        1, ParserColumn(p + 1))),
          pos |-> p + 1]
    ELSE IF ~semicolon
    THEN [res |-> ParseError(<<"expected semicolon">>, 1, ParserColumn(p)),
          pos |-> p]
    ELSE Try(ParserExpression(ts, p), LAMBDA e :
            IF SelfDelimiting(e.res.v)
            THEN ParserBlockLoop(ts, e.pos, Append(statements, e.res.v), FALSE)
            ELSE IF Lookahead(ts, e.pos) = Tok("Semicolon")
            THEN ParserBlockLoop(ts, e.pos + 1, Append(statements, e.res.v), TRUE)
            ELSE ParserBlockLoop(ts, e.pos, Append(statements, e.res.v), FALSE))

ParserBlock(ts, p) ==
    IF Lookahead(ts, p) # Tok("LBrace") THEN Expected("LBrace", p)
    ELSE ParserBlockLoop(ts, p + 1, <<>>, TRUE)

ParserForExpression(ts, p) ==
    IF Lookahead(ts, p) # Tok("For") THEN Expected("For", p)
    ELSE IF Lookahead(ts, p + 1).tok # "Ident" THEN ExpectedIdentifier(p + 1)
    ELSE IF Lookahead(ts, p + 2) # Tok("In") THEN Expected("In", p + 2)
    ELSE Try(ParserExpression(ts, p + 3), LAMBDA expr :
            Try(ParserBlock(ts, expr.pos), LAMBDA body :
               [res |-> Ok(At(For(Lookahead(ts, p + 1).ident, expr.res.v,
                                  body.res.v),
                              1, ParserColumn(body.pos))),
                pos |-> body.pos]))

\* Parser::primary: a parenthesised expression, an identifier or a literal;
\* any other token is an error, and the parser steps over it all the same
ParserPrimary(ts, p) ==
    LET tok == Lookahead(ts, p)
    IN  CASE tok = Tok("LParen") ->
               Try(ParserExpression(ts, p + 1), LAMBDA expr :
                  IF Lookahead(ts, expr.pos) # Tok("RParen")
                  THEN Expected("RParen", expr.pos)
                  ELSE [res |-> expr.res, pos |-> expr.pos + 1])
          [] tok.tok = "Ident" ->
               [res |-> Ok(At(Identifier(tok.ident), 1, ParserColumn(p + 1))),
                pos |-> p + 1]
          [] tok.tok \in {"True", "False"} ->
               [res |-> Ok(At(Value(BooleanV(tok.tok = "True")), 1, ParserColumn(p))),
                pos |-> p + 1]
          [] tok.tok \in {"Int", "Float", "String"} ->
               [res |-> Ok(At(Value(tok.value), 1, ParserColumn(p))), pos |-> p + 1]
          [] tok.tok = "Illegal" ->
               [res |-> ParseError(tok.message, 1, LexerColumn(p)), pos |-> p + 1]
          [] OTHER ->
               [res |-> ParseError(<<"unexpected token", tok.tok>>, 1, LexerColumn(p)),
                pos |-> p + 1]

\* the loop `while self.nibble(Token::Comma) { args.push(self.expression()?) }`
ParserArguments(ts, p, args) ==
    IF Lookahead(ts, p) # Tok("Comma") THEN [res |-> Ok(args), pos |-> p]
    ELSE Try(ParserExpression(ts, p + 1), LAMBDA arg :
            ParserArguments(ts, arg.pos, Append(args, arg.res.v)))

\* the arguments between `(` and `)`
ArgumentList(ts, p) ==
    IF Lookahead(ts, p) = Tok("RParen") THEN [res |-> Ok(<<>>), pos |-> p]
    ELSE Try(ParserExpression(ts, p), LAMBDA first :
            ParserArguments(ts, first.pos, <<first.res.v>>))

ParserCall(ts, p) ==
    Try(ParserPrimary(ts, p), LAMBDA callee :
       IF Lookahead(ts, callee.pos) # Tok("LParen") THEN callee
       ELSE Try(ArgumentList(ts, callee.pos + 1), LAMBDA args :
               IF Lookahead(ts, args.pos) # Tok("RParen")
               THEN Expected("RParen", args.pos)
               ELSE [res |-> Ok(At(Call(callee.res.v, args.res.v),
                                   1, ParserColumn(args.pos + 1))),
                     pos |-> args.pos + 1]))

ParserUnary(ts, p) == ParserCall(ts, p)

\* the right operand of a level: the next level up, unary above exponential
ParserOperand(ts, p, level) ==
    IF level = 5 THEN ParserUnary(ts, p) ELSE ParserLevel(ts, p, level + 1)

\* the loop of a binary level, standing at p with `expr` parsed: while the
\* lookahead is an operator of the level, expr becomes Binary(expr, op, right).
\* comparison takes the node's position before it parses the right operand,
\* the other levels after
ParserLevelLoop(ts, p, level, expr) ==
    IF Lookahead(ts, p).tok \notin LevelOperators(level)
    THEN [res |-> Ok(expr), pos |-> p]
    ELSE Try(ParserOperand(ts, p + 1, level), LAMBDA right :
            ParserLevelLoop(ts, right.pos, level,
                            At(Binary(expr, Lookahead(ts, p).tok, right.res.v), 1,
                               IF level = 2 THEN ParserColumn(p + 1)
                               ELSE ParserColumn(right.pos))))

ParserLevel(ts, p, level) ==
    Try(ParserOperand(ts, p, level), LAMBDA expr :
       ParserLevelLoop(ts, expr.pos, level, expr.res.v))

ParserExponential(ts, p) == ParserLevel(ts, p, 5)
ParserFactor(ts, p) == ParserLevel(ts, p, 4)
ParserTerm(ts, p) == ParserLevel(ts, p, 3)
ParserComparison(ts, p) == ParserLevel(ts, p, 2)
ParserEquality(ts, p) == ParserLevel(ts, p, 1)

\* assignment after `=`: the value's error is returned only when the target
\* is an identifier
AssignTo(target, value) ==
    IF target.node # "Identifier"
    THEN [res |-> ParseError(<<"invalid assignment target">>, 1,
                             LexerColumn(value.pos)),
          pos |-> value.pos]
    ELSE IF value.res.k # "Ok" THEN value
    ELSE [res |-> Ok(At(Assign(target.ident, value.res.v),
                        1, ParserColumn(value.pos))),
          pos |-> value.pos]

ParserAssignment(ts, p) ==
    Try(ParserEquality(ts, p), LAMBDA expr :
       IF Lookahead(ts, expr.pos) # Tok("Eq") THEN expr
       ELSE AssignTo(expr.res.v, ParserAssignment(ts, expr.pos + 1)))

ParserExpression(ts, p) ==
    LET tok == Lookahead(ts, p).tok
    IN  CASE tok = "For" -> ParserForExpression(ts, p)
          [] tok = "LBrace" -> ParserBlock(ts, p)
          [] tok = "Let" -> ParserLetExpression(ts, p)
          [] tok = "Function" -> ParserFunctionExpression(ts, p)
          [] tok = "If" -> ParserIfExpression(ts, p)
          [] tok = "Return" -> ParserReturnExpression(ts, p)
          [] OTHER -> ParserAssignment(ts, p)

-----------------------------------------------------------------------------
(* The programs.  main.rs parses a file into a Vec<Expression> and hands   *)
(* it to evaluate_program with a clone of the global environment.  The     *)
(* program is drawn, expression by expression, from one of four families.  *)

MaxSteps == 4    \* top-level expressions per program
MaxDepth == 3    \* nesting depth of blocks

Num(n) == Value(Int64(n))
Nil == Value(NilV)
Var(n) == Identifier(n)
CallOf(name, arguments) == Call(Identifier(name), arguments)

\* `{ e; }`, depth times around e: the parser appends a Nil after a trailing `;`
RECURSIVE Nest(_, _)
Nest(depth, e) == IF depth = 0 THEN e ELSE Block(<<Nest(depth - 1, e), Nil>>)

Depths == 0 .. MaxDepth

\* every name a program below binds, in one order.  A process' hash seed
\* fixes the order in which a HashMap yields its keys; the model takes the
\* orders among this one and its reverse, the same for every map of a process
AllNames ==
    <<"a", "b", "big", "c", "f", "g", "id", "inc", "mk", "print", "r", "rb", "rec",
      "x", "y">>
Reverse(seq) == [i \in 1 .. Len(seq) |-> seq[Len(seq) + 1 - i]]
KeyOrders == {AllNames, Reverse(AllNames)}
Hosts == [order : KeyOrders, overflow_checks : BOOLEAN]

\* scopes: let, assignment at every nesting depth, a block-local let
ShadowBlock == Block(<<Let("x", Num(2)), Var("x")>>)
LetBlock == Block(<<Let("x", Num(2))>>)
SetX == Function("f", <<>>, Assign("x", Num(3)))
ScopePrograms ==
    {Let("x", Num(1)), Var("x"), Assign("y", Num(2)), SetX, CallOf("f", <<>>),
     ShadowBlock, LetBlock}
    \cup {Nest(d, Assign("x", Num(2))) : d \in Depths}

\* closures: two functions of one scope; a function that makes a counter
GetX == Function("g", <<>>, Var("x"))
Inc == Function("inc", <<>>, Assign("c", Binary(Var("c"), "Plus", Num(1))))
Mk == Function("mk", <<>>, Block(<<Let("c", Num(0)), Inc, Var("inc")>>))
Makers == {"a", "b"}
\* `fn rec() rec`: a function whose body names the function itself
Rec == Function("rec", <<>>, Var("rec"))
\* `{ let x = 1; g() }`: a call from a scope that binds x
CallWithX == Block(<<Let("x", Num(1)), CallOf("g", <<>>)>>)
ClosurePrograms ==
    {Let("x", Num(1)), SetX, GetX, CallOf("f", <<>>), CallOf("g", <<>>), Mk,
     Rec, CallOf("rec", <<>>), CallWithX}
    \cup {Let(n, CallOf("mk", <<>>)) : n \in Makers}
    \cup {CallOf(n, <<>>) : n \in Makers}

\* calls: return, parameters, arity
Say(n) == CallOf("print", <<Num(n)>>)
RBare == Function("r", <<>>, Return(Num(1)))
RBlock == Function("rb", <<>>, Block(<<Return(Num(1)), Nil>>))
Id == Function("id", <<"y">>, Var("y"))
Big == Function("big", [i \in 1 .. U8Modulus |-> "p"], Say(0))
\* `{ ... { return 1; print(1) }; print(depth) }`
RECURSIVE Unwind(_)
Unwind(depth) ==
    IF depth = 0 THEN Return(Num(1)) ELSE Block(<<Unwind(depth - 1), Say(depth)>>)
FunctionDefs == {SetX, GetX, RBare, RBlock, Id, Big}
\* `let x = return 1` and `print(return 1)`: a return where a value is expected
LetReturn == Let("x", Return(Num(1)))
PrintReturn == CallOf("print", <<Return(Num(1))>>)
ArgLists == {<<>>, <<Num(7)>>, <<Num(7), Num(8)>>}
\* calls whose callee and arguments print or fail.  `id(print(1), print(2))`
\* has one argument too many
TooMany == CallOf("id", <<Say(1), Say(2)>>)
\* `y(print(1))` and `({ print(3); 5 })(print(1))` call what may be no
\* function, `({ print(3); id })(print(1))` a function, and
\* `id(print(1), u, print(2))` has an undefined argument
OrderPrograms ==
    {CallOf("y", <<Say(1)>>),
     Call(Block(<<Say(3), Num(5)>>), <<Say(1)>>),
     Call(Block(<<Say(3), Var("id")>>), <<Say(1)>>),
     TooMany,
     CallOf("id", <<Say(1), Var("u"), Say(2)>>)}
CallPrograms ==
    {RBare, RBlock, Id, Big, Let("y", Num(1)), LetReturn, PrintReturn,
     Binary(CallOf("r", <<>>), "Plus", Num(1)),
     Binary(CallOf("rb", <<>>), "Plus", Num(1))}
    \cup {CallOf(n, args) : n \in {"r", "rb", "id", "big"}, args \in ArgLists}
    \cup {Unwind(d) : d \in Depths}
    \cup OrderPrograms

\* arithmetic: every operator on every pair of literals; a for loop
Operators ==
    {"Plus", "Minus", "Asterisk", "Slash", "Pow", "EqEq", "BangEq", "LessThan",
     "GreaterThan", "LessThanEqual", "GreaterThanEqual"}
Literals ==
    {Int64(0), Int64(1), Int64(7), Int64(-1), I64Max, I64Min,
     Float64(0), Float64(1), Float64(7),
     BooleanV(TRUE), StringV("s"), NilV}
\* the one quotient the hi/lo form of an i64 cannot hold
Unmodelled(l, operator, r) ==
    /\ operator = "Slash" /\ l.t = "Int" /\ r.t = "Int"
    /\ l.hi # 0 /\ r.hi = 0 /\ r.lo \notin {-1, 0, 1}
\* an operand that evaluates to v: a literal, or `({})` for Nil, which is no
\* literal of the grammar
Operand(v) == IF v = NilV THEN Block(<<Nil>>) ELSE Value(v)
\* `print(1) op ({ print(2); 1 })`: operands that print, Nil on the left and
\* an Int on the right
PrintingOperands(operator) ==
    Binary(Say(1), operator, Block(<<Say(2), Num(1)>>))
ArithPrograms ==
    {Binary(Operand(t[1]), t[2], Operand(t[3])) :
        t \in {t \in Literals \X Operators \X Literals :
                  ~Unmodelled(t[1], t[2], t[3])}}
    \cup {For("x", Var("y"), Block(<<Nil>>))}
    \cup {PrintingOperands(o) : o \in Operators}

Suites == {"scopes", "closures", "calls", "arith"}

Programs(s) ==
    CASE s = "scopes" -> ScopePrograms
      [] s = "closures" -> ClosurePrograms
      [] s = "calls" -> CallPrograms
      [] s = "arith" -> ArithPrograms

\* an arithmetic program is one expression: it leaves no binding behind
ProgramLength(s) == IF s = "arith" THEN 1 ELSE MaxSteps

-----------------------------------------------------------------------------
(* Interpreter::new: the global environment holds the native `print`.      *)
InterpreterNew == Insert(EnvironmentNew, "print", NativeFunctionV(1, "print"))

Init ==
    /\ suite \in Suites
    /\ process \in Hosts
    /\ globalEnv = InterpreterNew
    /\ progResult = Ok(NilV)
    /\ status = "running"
    /\ steps = 0
    /\ last = None
    /\ before = InterpreterNew
    /\ lastres = Ok(NilV)
    /\ lastout = <<>>
    /\ stdout = <<>>
    /\ source = <<>>
    /\ ast = None
    /\ interpreter = [global_environment |-> InterpreterNew]

\* one turn of evaluate_program's loop on the program's next expression
EvaluateNext ==
    /\ status = "running"
    /\ steps < ProgramLength(suite)
    /\ \E expr \in Programs(suite) :
          LET r == Evaluate(expr, globalEnv, process)
          IN  /\ last' = Some(expr)
              /\ before' = globalEnv
              /\ lastres' = r.res
              /\ lastout' = r.out
              /\ globalEnv' = r.env
              /\ stdout' = stdout \o r.out
              /\ progResult' = IF r.res.k = "Ok" /\ r.res.v.t = "Return"
                               THEN Ok(r.res.v.value) ELSE r.res
              /\ status' = CASE r.res.k = "Panic" -> "aborted"
                             [] r.res.k = "Err" -> "failed"
                             [] r.res.v.t = "Return" -> "returned"
                             [] OTHER -> "running"
    /\ steps' = steps + 1
    /\ UNCHANGED <<suite, process, source, ast, interpreter>>

\* the program has no further expression: evaluate_program gives Ok(result)
ProgramEnd ==
    /\ status = "running"
    /\ status' = "finished"
    /\ UNCHANGED <<suite, globalEnv, progResult, steps, last, before, lastres,
                   lastout, stdout, process, source, ast, interpreter>>

Next == EvaluateNext \/ ProgramEnd

Spec == Init /\ [][Next]_vars

-----------------------------------------------------------------------------
(* main.rs: run_file.  The file's tokens are parsed by parse_program and   *)
(* the program is then evaluated, expression by expression.                *)

MaxItems == 2    \* expressions in a block of BlockSources

Semi == Tok("Semicolon")

\* `1 o1 2 o2 3;` for every two operator tokens of the binary levels
BinaryTokens == UNION {LevelOperators(level) : level \in 1 .. 5}
Chain(o1, o2) == <<TInt(1), Tok(o1), TInt(2), Tok(o2), TInt(3), Semi>>
ChainSources == {Chain(o1, o2) : o1 \in BinaryTokens, o2 \in BinaryTokens}

\* `{ e1; ...; en };` and `{ e1; ...; en; };`: each item is the tokens of an
\* expression and the value it evaluates to
Items ==
    {[tokens |-> <<TInt(1)>>, value |-> Int64(1)],
     [tokens |-> <<TString("s")>>, value |-> StringV("s")],
     [tokens |-> <<Tok("Let"), TIdent("x"), Tok("Eq"), TInt(5)>>, value |-> Int64(5)],
     [tokens |-> <<TInt(1), Tok("Plus"), TInt(2)>>, value |-> Int64(3)]}
ItemLists == UNION {[1 .. n -> Items] : n \in 0 .. MaxItems}
RECURSIVE Separated(_, _)
Separated(items, i) ==
    IF i > Len(items) THEN <<>>
    ELSE items[i].tokens \o (IF i < Len(items) THEN <<Semi>> ELSE <<>>)
         \o Separated(items, i + 1)
BlockSource(items, trailing) ==
    <<Tok("LBrace")>> \o Separated(items, 1) \o (IF trailing THEN <<Semi>> ELSE <<>>)
    \o <<Tok("RBrace"), Semi>>
BlockSources ==
    {BlockSource(items, trailing) : items \in ItemLists, trailing \in BOOLEAN}

\* the constructs that end in a `{ ... }` block, and others
IfBlock == <<Tok("If"), Tok("True"), Tok("LBrace"), TInt(1), Tok("RBrace")>>
IfElseBlock ==
    <<Tok("If"), Tok("False"), TInt(1), Tok("Else"), Tok("LBrace"), TInt(2),
      Tok("RBrace")>>
FnBlock ==
    <<Tok("Function"), TIdent("f"), Tok("LParen"), Tok("RParen"), Tok("LBrace"),
      TInt(1), Tok("RBrace")>>
ForBlock ==
    <<Tok("For"), TIdent("x"), Tok("In"), TIdent("y"), Tok("LBrace"), Tok("RBrace")>>
BlockEnded == {IfBlock, IfElseBlock, FnBlock, ForBlock}
NotBlockEnded ==
    {<<TInt(1)>>,
     <<Tok("Let"), TIdent("x"), Tok("Eq"), TInt(1)>>,
     <<Tok("If"), Tok("True"), TInt(1)>>,
     <<Tok("If"), Tok("True"), Tok("LBrace"), TInt(1), Tok("RBrace"), Tok("Else"),
       TInt(2)>>,
     <<Tok("Function"), TIdent("f"), Tok("LParen"), Tok("RParen"), TInt(1)>>,
     <<Tok("LBrace"), TInt(1), Tok("RBrace")>>}
\* the construct followed, with no `;` between, by the expression 7: at the
\* top level and in a block
ThenAtTopLevel(construct) == construct \o <<TInt(7), Semi>>
ThenInBlock(construct) ==
    <<Tok("LBrace")>> \o construct \o <<TInt(7), Tok("RBrace"), Semi>>
ElisionSources ==
    {ThenAtTopLevel(c) : c \in BlockEnded \cup NotBlockEnded}
    \cup {ThenInBlock(c) : c \in BlockEnded \cup NotBlockEnded}

Sources == ChainSources \cup BlockSources \cup ElisionSources

RunFileInit ==
    /\ suite = "file"
    /\ source \in Sources
    /\ ast = None
    /\ process \in Hosts
    /\ interpreter = [global_environment |-> InterpreterNew]
    /\ globalEnv = InterpreterNew
    /\ progResult = Ok(NilV)
    /\ status = "parsing"
    /\ steps = 0
    /\ last = None
    /\ before = InterpreterNew
    /\ lastres = Ok(NilV)
    /\ lastout = <<>>
    /\ stdout = <<>>

\* parser.parse_program(): a ParseError ends the run
ParseProgram ==
    /\ status = "parsing"
    /\ LET parsed == ParserParseProgram(source).res
       IN  /\ ast' = Some(parsed)
           /\ status' = IF parsed.k = "Ok" THEN "running" ELSE "rejected"
    /\ UNCHANGED <<suite, globalEnv, progResult, steps, last, before, lastres,
                   lastout, stdout, process, source, interpreter>>

\* one turn of evaluate_program's loop on the next expression of the program
EvaluateParsed ==
    /\ status = "running"
    /\ steps < Len(ast[1].v)
    /\ LET expr == ast[1].v[steps + 1]
           r == Evaluate(expr, globalEnv, process)
       IN  /\ last' = Some(expr)
           /\ before' = globalEnv
           /\ lastres' = r.res
           /\ lastout' = r.out
           /\ globalEnv' = r.env
           /\ stdout' = stdout \o r.out
           /\ progResult' = IF r.res.k = "Ok" /\ r.res.v.t = "Return"
                            THEN Ok(r.res.v.value) ELSE r.res
           /\ status' = CASE r.res.k = "Panic" -> "aborted"
                          [] r.res.k = "Err" -> "failed"
                          [] r.res.v.t = "Return" -> "returned"
                          [] OTHER -> "running"
    /\ steps' = steps + 1
    /\ UNCHANGED <<suite, process, source, ast, interpreter>>

\* the program has no further expression: evaluate_program gives Ok(result)
EndOfProgram ==
    /\ status = "running"
    /\ steps = Len(ast[1].v)
    /\ status' = "finished"
    /\ UNCHANGED <<suite, globalEnv, progResult, steps, last, before, lastres,
                   lastout, stdout, process, source, ast, interpreter>>

RunFileNext == ParseProgram \/ EvaluateParsed \/ EndOfProgram

RunFile == RunFileInit /\ [][RunFileNext]_vars

-----------------------------------------------------------------------------
(* repl.rs: repl.  Each turn of the loop reads a line, parses one          *)
(* expression from it and evaluates it with evaluate_expression.           *)

\* EvaluateExpression with a bug: evaluate runs on the global environment itself
EvaluateExpressionInPlace(self, expression, host) ==
    LET r == Evaluate(expression, self.global_environment, host)
    IN  [res |-> r.res, self |-> [self EXCEPT !.global_environment = r.env],
         out |-> r.out]

\* evaluate_expression: evaluate runs on `&mut self.global_environment.clone()`,
\* a temporary; [res, self, out], self being the Interpreter afterwards
EvaluateExpression(self, expression, host) ==
    LET r == Evaluate(expression, self.global_environment, host)
    IN  [res |-> r.res, self |-> self, out |-> r.out]

\* the lines typed: `let x = 1`, `x`, `x = 2`, `fn f() 1`, `f()`, `print(1)`,
\* `1 / 0` and `let`, which is no expression
Lines ==
    {<<Tok("Let"), TIdent("x"), Tok("Eq"), TInt(1)>>,
     <<TIdent("x")>>,
     <<TIdent("x"), Tok("Eq"), TInt(2)>>,
     <<Tok("Function"), TIdent("f"), Tok("LParen"), Tok("RParen"), TInt(1)>>,
     <<TIdent("f"), Tok("LParen"), Tok("RParen")>>,
     <<TIdent("print"), Tok("LParen"), TInt(1), Tok("RParen")>>,
     <<TInt(1), Tok("Slash"), TInt(0)>>,
     <<Tok("Let")>>}

ReplInit ==
    /\ suite = "repl"
    /\ source = <<>>
    /\ ast = None
    /\ process \in Hosts
    /\ interpreter = [global_environment |-> InterpreterNew]
    /\ globalEnv = InterpreterNew
    /\ progResult = Ok(NilV)
    /\ status = "running"
    /\ steps = 0
    /\ last = None
    /\ before = InterpreterNew
    /\ lastres = Ok(NilV)
    /\ lastout = <<>>
    /\ stdout = <<>>

\* one turn of the loop: a ParseError and a RuntimeError go to stderr, a
\* value is printed; `before` is the environment the expression started from
ReplLoop ==
    /\ status = "running"
    /\ steps < MaxSteps
    /\ \E line \in Lines :
          LET parsed == ParserExpression(line, 1).res
              r == EvaluateExpression(interpreter, parsed.v, process)
          IN  /\ source' = line
              /\ ast' = Some(parsed)
              /\ IF parsed.k = "Ok"
                 THEN /\ interpreter' = r.self
                      /\ last' = Some(parsed.v)
                      /\ before' = interpreter.global_environment
                      /\ lastres' = r.res
                      /\ lastout' = r.out
                      /\ progResult' = r.res
                      /\ stdout' = stdout \o r.out
                                     \o (IF r.res.k = "Ok" THEN <<Display(r.res.v)>>
                                         ELSE <<>>)
                      /\ status' = IF r.res.k = "Panic" THEN "aborted" ELSE "running"
                 ELSE UNCHANGED <<interpreter, last, before, lastres, lastout,
                                  progResult, stdout, status>>
    /\ steps' = steps + 1
    /\ UNCHANGED <<suite, globalEnv, process>>

ReplNext == ReplLoop

Repl == ReplInit /\ [][ReplNext]_vars

-----------------------------------------------------------------------------
(* The claims.  `last` is the expression the last turn of the loop         *)
(* evaluated, `before` the environment it started from, `lastres` and      *)
(* `lastout` what evaluate() gave and printed, globalEnv what it left.     *)

Evaluated(e) == last = Some(e)
Bound(env, name) == Get(env, name) # None
IsFunction(env, name) == Bound(env, name) /\ Get(env, name)[1].t = "KoxFunction"
\* name is bound, in env, to the function that the definition def makes
Defines(env, def) ==
    /\ IsFunction(env, def.name)
    /\ Get(env, def.name)[1].body = def.body
ArgValues(args) == [i \in 1 .. Len(args) |-> LiteralValue(args[i].value)]

(* C1: an assignment to a name that an outer scope defines, made at any    *)
(* nesting depth of blocks or in a function body, mutates that outer       *)
(* scope: once the block or call has completed, the outer scope holds the  *)
(* assigned value; the bare assignment evaluates to the assigned value.    *)
C1_AssignReachesDefiningScope ==
    /\ \A d \in Depths :
          (Evaluated(Nest(d, Assign("x", Num(2)))) /\ Bound(before, "x"))
             => /\ Get(globalEnv, "x") = Some(Int64(2))
                /\ d = 0 => lastres = Ok(Int64(2))
    /\ (Evaluated(CallOf("f", <<>>)) /\ Defines(before, SetX) /\ Bound(before, "x"))
          => Get(globalEnv, "x") = Some(Int64(3))

(* C2: two functions defined in one scope share that scope's bindings:     *)
(* after f has assigned 3 to the scope's x, a call of g, which reads x,    *)
(* gives 3.                                                                *)
C2_SameScopeFunctionsShare ==
    (/\ Evaluated(CallOf("f", <<>>))
     /\ lastres = Ok(Int64(3))
     /\ {"f", "g", "x"} \subseteq DOMAIN before.venv
     /\ Defines(before, SetX) /\ Defines(before, GetX))
       => Evaluate(CallOf("g", <<>>), globalEnv, process).res = Ok(Int64(3))

(* C3: two functions made by two separate calls of mk have independent     *)
(* captured bindings: a call through one of them, which assigns to its     *)
(* captured c, changes neither the other function nor the value a call     *)
(* through the other one gives.                                            *)
C3_SeparateCallsIndependent ==
    \A p \in Makers, q \in Makers :
       (p # q /\ Evaluated(CallOf(p, <<>>)) /\ IsFunction(before, p)
             /\ IsFunction(before, q))
          => /\ Get(globalEnv, q) = Get(before, q)
             /\ Evaluate(CallOf(q, <<>>), globalEnv, process).res
                   = Evaluate(CallOf(q, <<>>), before, process).res

\* a was called and assigned its c; b, from another call of mk, still counts from 0
C3_Witness ==
    /\ Evaluated(CallOf("a", <<>>))
    /\ lastres = Ok(Int64(1))
    /\ IsFunction(before, "a") /\ IsFunction(before, "b")
    /\ Get(before, "a")[1].body = Inc.body
    /\ Evaluate(CallOf("b", <<>>), globalEnv, process).res = Ok(Int64(1))

(* C4: the result of a Call of a user function is never a ReturnSignal,    *)
(* whether the body is `return 1` or `{ return 1; }`: the caller gets 1    *)
(* and goes on, so `r() + 1` is 2.                                         *)
C4_CallNeverYieldsReturnSignal ==
    /\ (last # None /\ last[1].node = "Call" /\ lastres.k = "Ok")
          => lastres.v.t # "Return"
    /\ \A d \in {RBare, RBlock} :
          /\ (Evaluated(CallOf(d.name, <<>>)) /\ Defines(before, d))
                => lastres = Ok(Int64(1))
          /\ (Evaluated(Binary(CallOf(d.name, <<>>), "Plus", Num(1)))
                /\ Defines(before, d))
                => lastres = Ok(Int64(2))

(* C5: a block does not catch a return: the nested blocks around           *)
(* `return 1` each give the ReturnSignal itself, still wrapped, and none   *)
(* of the expressions after the inner block is evaluated (nothing is       *)
(* printed).                                                               *)
C5_BlockPropagatesReturn ==
    \A d \in Depths :
       (d > 0 /\ Evaluated(Unwind(d)))
          => lastres = Ok(ReturnV(Int64(1))) /\ lastout = <<>>

(* C6: a call with the right number of arguments evaluates the body in a   *)
(* new scope that binds exactly the declared parameter names, each to the  *)
(* argument at its position.                                               *)
C6_ParametersBoundByPosition ==
    \A d \in FunctionDefs, args \in ArgLists :
       (Evaluated(CallOf(d.name, args)) /\ Defines(before, d)
             /\ Len(args) = Len(d.parameters))
          => CallScope(Get(before, d.name)[1], ArgValues(args), process).venv
                = BindParameters(EnvironmentNew, d.parameters, ArgValues(args)).venv

(* C7: a call whose argument count differs from the declared parameter     *)
(* count fails with the arity error, and the body is not evaluated         *)
(* (nothing is printed).                                                   *)
C7_WrongCountFailsWithoutEffect ==
    \A d \in FunctionDefs, args \in ArgLists :
       (Evaluated(CallOf(d.name, args)) /\ Defines(before, d)
             /\ Len(args) # Len(d.parameters))
          => /\ lastres.k = "Err"
             /\ lastres.message[1] = "Expected arguments but got"
             /\ lastout = <<>>

(* C8: `/` with a zero right operand of the left operand's variant (Int 0  *)
(* or Float 0.0) gives a RuntimeError: no panic, no value.                 *)
C8_DivisionByZeroIsAnError ==
    \A l \in Literals, r \in {Int64(0), Float64(0)} :
       (Evaluated(Binary(Operand(l), "Slash", Operand(r))) /\ l.t = r.t)
          => lastres.k = "Err"

(* C9: evaluate gives a value or a RuntimeError for every expression; it   *)
(* never panics.                                                           *)
C9_EvaluateNeverAborts ==
    status # "aborted" /\ lastres.k \in {"Ok", "Err"}

(* C10: the evaluation of an expression from an environment gives the same *)
(* result and leaves the same bindings whatever the iteration order of the *)
(* maps that hold the bindings.                                            *)
C10_EvaluationIsDeterministic ==
    last # None =>
       \A o \in KeyOrders :
          LET r == Evaluate(last[1], before, [process EXCEPT !.order = o])
          IN  r.res = lastres /\ r.env = globalEnv

(* C11: a Let inside a block binds the name in the block's own scope: the  *)
(* Let evaluates to the bound value (`{ let x = 2 }` is 2), a lookup after *)
(* it inside the block gives the new value (`{ let x = 2; x }` is 2), and  *)
(* once the block has completed the enclosing environment, an outer x      *)
(* included, is as it was.                                                 *)
C11_LetBindsInBlockScopeOnly ==
    \A b \in {LetBlock, ShadowBlock} :
       Evaluated(b) => lastres = Ok(Int64(2)) /\ globalEnv = before

\* an outer x is 1; the block bound its own x to 2 and the outer x is still 1
C11_Witness ==
    /\ Evaluated(ShadowBlock)
    /\ Get(before, "x") = Some(Int64(1))
    /\ lastres = Ok(Int64(2))
    /\ Get(globalEnv, "x") = Some(Int64(1))

(* C12: a function shares its defining scope by reference: a binding made  *)
(* in that scope after the definition is visible when the body runs (g,    *)
(* which reads x, gives the x its defining scope holds at the call), and   *)
(* the function's own name is visible in its body (`fn rec() rec; rec()`   *)
(* gives the function).                                                    *)
C12_ClosureSeesLaterBindings ==
    /\ (Evaluated(CallOf("g", <<>>)) /\ Defines(before, GetX) /\ Bound(before, "x"))
          => lastres = Ok(Get(before, "x")[1])
    /\ (Evaluated(CallOf("rec", <<>>)) /\ Defines(before, Rec))
          => lastres.k = "Ok" /\ lastres.v.t = "KoxFunction"

(* C13: scoping is lexical: when x is bound only in the scope the call is  *)
(* made from (`{ let x = 1; g() }`) and in no scope g captured, the lookup *)
(* of x in g's body fails with the undefined-variable error.               *)
C13_CallerBindingsNotVisible ==
    (Evaluated(CallWithX) /\ Defines(before, GetX) /\ ~Bound(before, "x")
        /\ ~Bound(Get(before, "g")[1].closure, "x"))
       => lastres = Err(<<"Undefined variable", "x">>, 1, 0)

\* g was defined where no x exists and is called from a block that binds x
C13_Witness ==
    /\ Evaluated(CallWithX)
    /\ Defines(before, GetX)
    /\ ~Bound(before, "x")
    /\ lastres.k = "Err"
    /\ Evaluate(Block(<<Let("x", Num(1)), Var("x")>>), before, process).res
          = Ok(Int64(1))

(* C14: a ReturnSignal is never observable as an ordinary value: no name   *)
(* of the environment is bound to one (`let x = return 1` binds no         *)
(* ReturnSignal to x), and none is passed as an argument (`print(return    *)
(* 1)` does not hand the signal to print, so nothing is printed).          *)
C14_ReturnSignalNeverAValue ==
    /\ \A n \in DOMAIN globalEnv.venv : globalEnv.venv[n].t # "Return"
    /\ Evaluated(PrintReturn) => lastout = <<>>
    /\ (last # None /\ last[1].node = "Call") =>
          LET a == EvaluateArguments(last[1].arguments, 1, before, process)
          IN  \A i \in 1 .. Len(a.args) : a.args[i].t # "Return"

(* C15: a Binary whose operands evaluate to different variants fails with  *)
(* the type-mismatch error, for every operator and every pair of distinct  *)
(* variants, after the left and then the right operand were evaluated (the *)
(* operands that print have printed, left first).                          *)
TypeMismatch == Err(<<"Operands must be of the same type">>, 1, 0)
C15_MismatchedVariantsFail ==
    (last # None /\ last[1].node = "Binary") =>
       LET l == Evaluate(last[1].left, before, process)
           r == Evaluate(last[1].right, l.env, process)
       IN  (l.res.k = "Ok" /\ r.res.k = "Ok" /\ l.res.v.t # r.res.v.t)
              => lastres = TypeMismatch /\ lastout = l.out \o r.out

\* `print(1) / ({ print(2); 1 })`: Nil and Int, both operands have printed
C15_Witness ==
    /\ Evaluated(PrintingOperands("Slash"))
    /\ lastres = TypeMismatch
    /\ lastout = <<"1", "2">>

(* C16: evaluate_program over a sequence of expressions against one        *)
(* environment: an expression that yields a ReturnSignal ends the program  *)
(* with the unwrapped value and no later expression is evaluated; a        *)
(* RuntimeError ends it and is the result, unchanged; otherwise the result *)
(* is the value of the last expression.                                    *)
C16_ProgramResult ==
    /\ status = "returned" =>
          /\ lastres.k = "Ok" /\ lastres.v.t = "Return"
          /\ progResult = Ok(lastres.v.value)
    /\ status = "failed" => lastres.k = "Err" /\ progResult = lastres
    /\ status = "finished" => progResult = lastres
    /\ last # None =>
          LET then == EvaluateProgram(<<last[1], Say(9)>>, before, process)
              first == EvaluateProgram(<<Say(9), last[1]>>, before, process)
          IN  CASE lastres.k = "Err" ->
                      /\ then.res = lastres /\ then.out = lastout
                      /\ first.res = lastres
                [] lastres.k = "Ok" /\ lastres.v.t = "Return" ->
                      /\ then.res = Ok(lastres.v.value) /\ then.out = lastout
                      /\ first.res = Ok(lastres.v.value)
                [] lastres.k = "Ok" /\ lastres.v.t # "Return" ->
                      /\ then.res = Ok(NilV) /\ then.out = lastout \o <<"9">>
                      /\ first.res = lastres /\ first.out = <<"9">> \o lastout
                [] OTHER -> TRUE

\* r() was the program's second expression or a later one and returned 1:
\* the program ended with Int 1, and a print after it would not run
C16_Witness ==
    /\ Evaluated(CallOf("r", <<>>))
    /\ status = "returned"
    /\ progResult = Ok(Int64(1))
    /\ EvaluateProgram(<<CallOf("r", <<>>), Say(9)>>, before, process).out = <<>>

(* C17: semicolon elision.  At the top level and in a block alike, an if,  *)
(* a function or a for that ends in a `{ ... }` block needs no `;` before  *)
(* the next expression and the parse succeeds; any other expression        *)
(* followed by the next one without a `;` is a ParseError.                 *)
C17_BlockEndedNeedsNoSemicolon ==
    ast # None =>
       /\ \A c \in BlockEnded :
             source \in {ThenAtTopLevel(c), ThenInBlock(c)} => ast[1].k = "Ok"
       /\ \A c \in NotBlockEnded :
             source \in {ThenAtTopLevel(c), ThenInBlock(c)}
                => ast[1].k = "ParseError"

(* C18: a block `{ e1; ...; en }`, parsed and then evaluated, gives the    *)
(* value of en when no `;` follows en, and Nil when the block is empty or  *)
(* a `;` follows en (the e's being expressions that give a value).         *)
C18_BlockValue ==
    \A items \in ItemLists, trailing \in BOOLEAN :
       (source = BlockSource(items, trailing) /\ (items # <<>> \/ ~trailing))
          => /\ ast # None => ast[1].k = "Ok" /\ Len(ast[1].v) = 1
             /\ steps = 1 =>
                   lastres = Ok(IF items = <<>> \/ trailing THEN NilV
                                ELSE items[Len(items)].value)

\* `{ 1; let x = 5; };` was parsed and evaluated, and gave Nil
C18_Witness ==
    LET items == <<[tokens |-> <<TInt(1)>>, value |-> Int64(1)],
                   [tokens |-> <<Tok("Let"), TIdent("x"), Tok("Eq"), TInt(5)>>,
                    value |-> Int64(5)]>>
    IN  /\ steps = 1
        /\ source = BlockSource(items, TRUE)
        /\ Len(ast[1].v[1].expressions) = 3
        /\ lastres = Ok(NilV)

(* C19: the binary levels bind in the order equality < comparison <        *)
(* additive < multiplicative < exponential, each left-associative: `1 o1 2 *)
(* o2 3` is Binary(Binary(1, o1, 2), o2, 3) unless o2 is of a higher level *)
(* than o1, and then it is Binary(1, o1, Binary(2, o2, 3)).                *)
Precedence(o) ==
    CASE o \in {"EqEq", "BangEq"} -> 1
      [] o \in {"LessThan", "LessThanEqual", "GreaterThan", "GreaterThanEqual"} -> 2
      [] o \in {"Plus", "Minus"} -> 3
      [] o \in {"Asterisk", "Slash"} -> 4
      [] o = "Pow" -> 5
IsInt(e, n) == e.node = "Value" /\ e.value = Int64(n)
IsBinary(e, o) == e.node = "Binary" /\ e.operator = o
C19_PrecedenceAndAssociativity ==
    \A o1 \in BinaryTokens, o2 \in BinaryTokens :
       (source = Chain(o1, o2) /\ ast # None) =>
          /\ ast[1].k = "Ok" /\ Len(ast[1].v) = 1
          /\ LET e == ast[1].v[1]
             IN  IF Precedence(o2) > Precedence(o1)
                 THEN /\ IsBinary(e, o1) /\ IsInt(e.left, 1)
                      /\ IsBinary(e.right, o2)
                      /\ IsInt(e.right.left, 2) /\ IsInt(e.right.right, 3)
                 ELSE /\ IsBinary(e, o2) /\ IsInt(e.right, 3)
                      /\ IsBinary(e.left, o1)
                      /\ IsInt(e.left.left, 1) /\ IsInt(e.left.right, 2)

\* `1 + 2 * 3;` was parsed: the product is the sum's right operand
C19_Witness ==
    /\ source = Chain("Plus", "Asterisk")
    /\ ast # None
    /\ ast[1].k = "Ok"
    /\ IsBinary(ast[1].v[1], "Plus")
    /\ IsBinary(ast[1].v[1].right, "Asterisk")

(* C20: evaluate_expression leaves the interpreter's global environment    *)
(* unchanged: after any sequence of calls it holds exactly the bindings of *)
(* Interpreter::new, so a name bound by a Let or a Function of an earlier  *)
(* call is undefined in the next call.                                     *)
C20_EvaluateExpressionKeepsGlobals ==
    /\ interpreter.global_environment = InterpreterNew
    /\ (last # None /\ last[1].node = "Identifier" /\ last[1].ident = "x")
          => lastres = Err(<<"Undefined variable", "x">>, 1, 1)
    /\ (last # None /\ last[1].node \in {"Call", "Assign"}
          /\ source[1] \in {TIdent("f"), TIdent("x")})
          => lastres.k = "Err" /\ lastres.message[1] = "Undefined variable"

\* `let x = 1` printed 1, and the next line, `x`, failed: x is undefined
C20_Witness ==
    /\ steps = 2
    /\ stdout = <<"1">>
    /\ source = <<TIdent("x")>>
    /\ lastres.k = "Err"
    /\ interpreter.global_environment = InterpreterNew

\* the arguments evaluated one after the other, none skipped, each from the
\* environment the one before it left
RECURSIVE ArgumentTrace(_, _, _)
ArgumentTrace(arguments, env, host) ==
    IF arguments = <<>> THEN <<>>
    ELSE LET r == Evaluate(Head(arguments), env, host)
         IN  <<r>> \o ArgumentTrace(Tail(arguments), r.env, host)
\* what the first n evaluations of a trace printed
RECURSIVE Outputs(_, _)
Outputs(trace, n) ==
    IF n = 0 THEN <<>> ELSE Outputs(trace, n - 1) \o trace[n].out
Failures(trace) == {i \in DOMAIN trace : trace[i].res.k # "Ok"}
First(indices) == CHOOSE i \in indices : \A j \in indices : i <= j

(* C21: the steps of a Call, in order.  The callee is evaluated and        *)
(* checked to be callable before any argument is evaluated: a callee that  *)
(* is no function fails with "Can only call functions" and nothing but the *)
(* callee's own output is printed.  Then the arguments are evaluated left  *)
(* to right, the first failing one giving the call's error and the later   *)
(* ones printing nothing.  The arity check comes after all the arguments:  *)
(* a call with a wrong argument count prints all that its arguments print. *)
C21_CallStepsInOrder ==
    (last # None /\ last[1].node = "Call") =>
       LET e == last[1]
           c == Evaluate(e.function, before, process)
           callable == c.res.v.t \in {"NativeFunction", "KoxFunction"}
           trace == ArgumentTrace(e.arguments, c.env, process)
           failed == Failures(trace)
       IN  c.res.k = "Ok" =>
              /\ ~callable =>
                    /\ lastres = Err(<<"Can only call functions! Not",
                                       Display(c.res.v)>>, e.line, e.column)
                    /\ lastout = c.out
                    /\ globalEnv = c.env
              /\ (callable /\ failed # {}) =>
                    /\ lastres = trace[First(failed)].res
                    /\ lastout = c.out \o Outputs(trace, First(failed))
              /\ (callable /\ failed = {} /\ Len(trace) # c.res.v.arity) =>
                    /\ lastres.k = "Err"
                    /\ lastres.message[1] = "Expected arguments but got"
                    /\ lastout = c.out \o Outputs(trace, Len(trace))

\* id(print(1), print(2)), id being the function of one parameter: both
\* arguments printed, then the call failed on the count
C21_Witness ==
    /\ Evaluated(TooMany)
    /\ Defines(before, Id)
    /\ lastres.k = "Err"
    /\ lastres.message[1] = "Expected arguments but got"
    /\ lastout = <<"1", "2">>

====
